---- MODULE Spec2Model ----
(***************************************************************************)
(* UDP transport shim of the ovpn-dco driver (drivers/net/ovpn-dco/udp.c): *)
(* socket attach/detach, the encap_rcv ingress demultiplexer and the       *)
(* egress transmitter with its per-peer route cache.                       *)
(***************************************************************************)
EXTENDS Integers, Sequences, FiniteSets, TLC

(***************************************************************************)
(* Bounds of the model                                                     *)
(***************************************************************************)
\* file references a caller may hold on one socket
MaxSockRefs == 2
\* longest datagram payload (bytes after the UDP header) that is received
MaxPayload == 5
\* roam events that may happen while one send is between its steps
MaxRoams == 1

(***************************************************************************)
(* Constants of the program and of the platform                            *)
(***************************************************************************)
NULL == "NULL"
\* device contexts (struct ovpn_struct)
Devices == {"ovpnA", "ovpnB"}
\* sockets, each with its sk_protocol
Sockets == {"udp1", "tcp1"}
IPPROTO_UDP == "IPPROTO_UDP"
IPPROTO_TCP == "IPPROTO_TCP"
sk_protocol == [s \in Sockets |-> IF s = "udp1" THEN IPPROTO_UDP ELSE IPPROTO_TCP]
UDP_ENCAP_OVPNINUDP == "UDP_ENCAP_OVPNINUDP"
\* encap_type of a socket without encapsulation (a zeroed cfg)
NoEncap == "NO_ENCAP"

\* peers, named by their identifier, and the device whose directory holds them
Peers == {"peer1", "peer2"}
PeerId == [p \in Peers |-> IF p = "peer1" THEN 1 ELSE 2]
PeerDev == [p \in Peers |-> IF p = "peer1" THEN "ovpnA" ELSE "ovpnB"]
\* peer identifiers a datagram may carry (3 is in no directory)
PeerIds == {1, 2, 3}
\* address families of a binding (struct sockaddr sa_family)
AF_INET == "AF_INET"
AF_INET6 == "AF_INET6"
AF_UNSPEC == "AF_UNSPEC"
RemoteAddrs == {"r1", "r2"}
Ports == {1194}
\* peer->bind when the peer has no binding (a NULL pointer)
NoBind == [family |-> "NONE", addr |-> "none", port |-> 0]
\* a peer's transport binding (struct ovpn_bind)
Binds == [family : {AF_INET, AF_INET6, AF_UNSPEC}, addr : RemoteAddrs, port : Ports]
\* source transport addresses of received datagrams
SrcAddrs == [family : {AF_INET, AF_INET6}, addr : RemoteAddrs, port : Ports]
\* opcodes of the tunnel protocol: data v2 and one control opcode
OVPN_DATA_V2 == "DATA_V2"
OVPN_CONTROL_V1 == "CONTROL_V1"
Opcodes == {OVPN_DATA_V2, OVPN_CONTROL_V1}
\* sizeof(struct udphdr)
UdpHdrLen == 8
\* bytes after the UDP header that hold opcode, key id and peer id
OpPrefixLen == 4
\* statuses the receive pipeline may return (consumed, deliver, resubmit)
RecvStatuses == {-1, 0, 1}

\* addresses the local host may have assigned
LocalAddrs == {"l1", "l2"}
\* peers the send pipeline transmits to
TxPeers == {"peer1"}
\* execution contexts that run ovpn_udp_send_skb step by step
Senders == {"tx1"}
\* an empty dst_cache
NoRoute == [family |-> "NONE", daddr |-> "none", saddr |-> "none"]
\* failures of a route lookup (the ERR_PTR it returns), as opposed to the
\* source address it resolves
LookupFailures == {"ENETUNREACH", "EACCES"}

\* errno values returned by this file
EINVAL == 22
EALREADY == 114
EBUSY == 16
EHOSTUNREACH == 113
EAFNOSUPPORT == 97
\* errors a route lookup hands back as an ERR_PTR
ENETUNREACH == 101
EACCES == 13

\* IS_ERR(rt) / IS_ERR(dst) on what the route lookup gave
IS_ERR(found) == found \in LookupFailures

\* PTR_ERR(dst): the errno the failed lookup carries
PTR_ERR(found) == IF found = "ENETUNREACH" THEN -ENETUNREACH ELSE -EACCES

VARIABLES
    sk_user_data,   \* [Sockets -> Devices \cup {NULL}]: sk->sk_user_data
    encap_rcv,      \* [Sockets -> {NULL, "ovpn_udp_encap_recv"}]
    encap_type,     \* [Sockets -> {NoEncap, UDP_ENCAP_OVPNINUDP}]
    f_count,        \* [Sockets -> 0..MaxSockRefs]: references on sock->file
    bind,           \* [Peers -> Binds \cup {NoBind}]: peer->bind
    peer_sock,      \* [Peers -> Sockets \cup {NULL}]: peer->sock->sock
    dst_cache,      \* [Peers -> route \cup {NoRoute}]: peer->dst_cache, the dst
                    \* and the source address stored with it
    local_addrs,    \* the addresses now assigned to the local host
    att,            \* [Devices -> record]: where the attach call of each
                    \* device's control path stands when run step by step
    snd,            \* [Senders -> record]: where each send call stands when
                    \* run step by step
    owner,          \* [Sockets -> Devices \cup {NULL}]: the device whose attach
                    \* returned 0 since the last detach (history)
    last            \* what the last call did (history)

bindVars == <<sk_user_data, encap_rcv, encap_type, f_count, owner>>
peerVars == <<bind, peer_sock, dst_cache, local_addrs>>
stepVars == <<att, snd>>
vars == <<sk_user_data, encap_rcv, encap_type, f_count, owner, bind, peer_sock,
          dst_cache, local_addrs, att, snd, last>>

(***************************************************************************)
(* Socket Binding Manager                                                  *)
(***************************************************************************)

\* ovpn->dev: the net_device of a device context, the leading member of
\* struct ovpn_struct
NetDevOf(ovpn) == IF ovpn = "ovpnA" THEN "tunA" ELSE "tunB"

\* old_data->ovpn: old_data is declared struct ovpn_socket * but holds what
\* sk_user_data holds, the struct ovpn_struct * that attach stored.  The read
\* of member ovpn therefore yields the leading word of the ovpn_struct, its
\* net_device pointer, which is no device context.
old_data_ovpn(old_data) == NetDevOf(old_data)

\* the configuration attach passes to setup_udp_tunnel_sock
attach_cfg(ovpn) ==
    [sk_user_data |-> ovpn, encap_type |-> UDP_ENCAP_OVPNINUDP,
     encap_rcv |-> "ovpn_udp_encap_recv"]

\* a detach configuration that leaves the callback installed
detach_cfg_keep_rcv ==
    [sk_user_data |-> NULL, encap_type |-> NoEncap, encap_rcv |-> "ovpn_udp_encap_recv"]

\* the configuration detach passes: struct udp_tunnel_sock_cfg cfg = { }
detach_cfg == [sk_user_data |-> NULL, encap_type |-> NoEncap, encap_rcv |-> NULL]

\* setup_udp_tunnel_sock(net, sock, cfg): installs private data and callback
setup_udp_tunnel_sock(sock, cfg) ==
    /\ sk_user_data' = [sk_user_data EXCEPT ![sock] = cfg.sk_user_data]
    /\ encap_type' = [encap_type EXCEPT ![sock] = cfg.encap_type]
    /\ encap_rcv' = [encap_rcv EXCEPT ![sock] = cfg.encap_rcv]

\* attach without the check for a pre-existing encapsulation handler
attach_ret_unchecked(sock, ovpn) ==
    IF sk_protocol[sock] # IPPROTO_UDP THEN -EINVAL ELSE 0

\* attach that looks at the private data before it looks at the protocol
attach_ret_owner_first(sock, ovpn) ==
    IF sk_user_data[sock] # NULL
    THEN IF old_data_ovpn(sk_user_data[sock]) = ovpn THEN -EALREADY ELSE -EBUSY
    ELSE IF sk_protocol[sock] # IPPROTO_UDP THEN -EINVAL ELSE 0

\* the value ovpn_udp_socket_attach returns
attach_ret(sock, ovpn) ==
    IF sk_protocol[sock] # IPPROTO_UDP THEN -EINVAL
    ELSE IF sk_user_data[sock] # NULL
         THEN IF old_data_ovpn(sk_user_data[sock]) = ovpn THEN -EALREADY
              ELSE -EBUSY
         ELSE 0

\* a control path that is not inside ovpn_udp_socket_attach; holds is the
\* socket its last attach returned 0 for, when no detach of that socket came
\* since (history)
AttIdle(holds) == [pc |-> "idle", holds |-> holds]

\* ovpn_udp_socket_attach(sock, ovpn), udp.c:265-283: the protocol test, the
\* read of sk_user_data inside the read-side critical section, which is left
\* at once, and the decision taken from what was read.  old_rcv, old_owner
\* and prev record the socket as the call found it (history).
attach_check(ovpn, sock) ==
    /\ att[ovpn].pc = "idle"
    /\ att' = [att EXCEPT ![ovpn] =
                 [pc |-> "checked", holds |-> @.holds, sock |-> sock,
                  ret |-> attach_ret(sock, ovpn),
                  old_data |-> sk_user_data[sock], old_rcv |-> encap_rcv[sock],
                  old_owner |-> owner[sock],
                  prev |-> IF last.op = "detach"
                           THEN <<"detach", last.sock, last.old_data>>
                           ELSE <<"other">>]]
    /\ UNCHANGED <<bindVars, peerVars, snd, last>>

\* ovpn_udp_socket_attach(sock, ovpn), udp.c:285-287: setup_udp_tunnel_sock
\* when the decision was to go on, with nothing held since the check, and
\* the return
attach_install(ovpn) ==
    LET a == att[ovpn] IN
    /\ a.pc = "checked"
    /\ IF a.ret = 0
       THEN /\ setup_udp_tunnel_sock(a.sock, attach_cfg(ovpn))
            /\ owner' = [owner EXCEPT ![a.sock] = ovpn]
       ELSE UNCHANGED <<sk_user_data, encap_type, encap_rcv, owner>>
    /\ att' = [att EXCEPT ![ovpn] = AttIdle(IF a.ret = 0 THEN a.sock ELSE a.holds)]
    /\ last' = [op |-> "attach", sock |-> a.sock, ovpn |-> ovpn, ret |-> a.ret,
                old_data |-> a.old_data, old_rcv |-> a.old_rcv,
                old_owner |-> a.old_owner, prev |-> a.prev]
    /\ UNCHANGED <<f_count, peerVars, snd>>

\* ovpn_udp_socket_detach(sock): the caller holds a reference on the socket
ovpn_udp_socket_detach(sock) ==
    /\ f_count[sock] > 0
    /\ setup_udp_tunnel_sock(sock, detach_cfg)
    /\ f_count' = [f_count EXCEPT ![sock] = @ - 1]
    /\ owner' = [owner EXCEPT ![sock] = NULL]
    /\ att' = [d \in Devices |->
                 IF att[d].holds = sock THEN [att[d] EXCEPT !.holds = NULL] ELSE att[d]]
    /\ UNCHANGED peerVars
    /\ last' = [op |-> "detach", sock |-> sock, old_data |-> sk_user_data[sock],
                old_count |-> f_count[sock]]

\* sockfd_lookup by the control path: takes the reference detach later drops
sockfd_lookup(sock) ==
    /\ f_count[sock] < MaxSockRefs
    /\ f_count' = [f_count EXCEPT ![sock] = @ + 1]
    /\ UNCHANGED <<sk_user_data, encap_type, encap_rcv, owner, peerVars>>
    /\ last' = [op |-> "sockfd_lookup", sock |-> sock]

\* the stream transport of a device claims a socket that is not UDP: its
\* private data then names that device, and no UDP encapsulation is set
stream_socket_claim(sock, ovpn) ==
    /\ sk_protocol[sock] # IPPROTO_UDP
    /\ sk_user_data[sock] = NULL
    /\ sk_user_data' = [sk_user_data EXCEPT ![sock] = ovpn]
    /\ UNCHANGED <<encap_type, encap_rcv, f_count, owner, peerVars>>
    /\ last' = [op |-> "stream_claim", sock |-> sock]

(***************************************************************************)
(* Peer directory and receive pipeline (collaborators of this file)        *)
(***************************************************************************)

\* ovpn_from_udp_sock(sk): the device context kept in the private data of a
\* socket that carries this encapsulation, NULL otherwise
ovpn_from_udp_sock(sk) ==
    IF encap_type[sk] = UDP_ENCAP_OVPNINUDP THEN sk_user_data[sk] ELSE NULL

\* ovpn_peer_lookup_id(ovpn, peer_id): the peer of this device with that id
ovpn_peer_lookup_id(ovpn, peer_id) ==
    LET match == {p \in Peers : PeerDev[p] = ovpn /\ PeerId[p] = peer_id} IN
    IF match = {} THEN NULL ELSE CHOOSE p \in match : TRUE

\* ovpn_peer_lookup_transp_addr(ovpn, skb): the peer of this device whose
\* current binding is the datagram's source transport address
ovpn_peer_lookup_transp_addr(ovpn, skb) ==
    LET match == {p \in Peers : PeerDev[p] = ovpn /\ bind[p] = skb.src} IN
    IF match = {} THEN NULL ELSE CHOOSE p \in match : TRUE

\* ovpn_recv(ovpn, peer, skb) -> status: the pipeline owns the peer reference
\* it is given and releases it; the datagram is consumed when status is 0
ovpn_recv(ovpn, peer, skb, status) ==
    [ret |-> status, ovpn |-> ovpn, peer |-> peer, data |-> skb.data,
     len |-> skb.len, put |-> 1, consumed |-> IF status = 0 THEN 1 ELSE 0]

\* roam event: the peer's binding is replaced by an atomic pointer store
ovpn_bind_reset(peer, new) ==
    /\ bind' = [bind EXCEPT ![peer] = new]
    /\ UNCHANGED <<peer_sock, dst_cache, local_addrs>>
    /\ last' = [op |-> "rebind", peer |-> peer]

(***************************************************************************)
(* Ingress Demultiplexer                                                   *)
(***************************************************************************)

\* datagrams as encap_rcv gets them: data at the UDP header, len counted from
\* there; the 4 byte prefix is readable only when the payload holds it
NoHdr == [opcode |-> "NONE", peer_id |-> 0]
Datagrams ==
    { [data |-> 0, len |-> UdpHdrLen + n, hdr |-> h, src |-> a] :
        n \in OpPrefixLen..MaxPayload,
        h \in [opcode : Opcodes, peer_id : PeerIds],
        a \in SrcAddrs }
    \cup
    { [data |-> 0, len |-> UdpHdrLen + n, hdr |-> NoHdr, src |-> a] :
        n \in 0..(OpPrefixLen - 1), a \in SrcAddrs }

\* a length check that forgets the 4 byte prefix
pskb_may_pull_hdr_only(skb, len) == skb.len >= len - OpPrefixLen

\* pskb_may_pull(skb, len): len bytes from skb->data are in the buffer
pskb_may_pull(skb, len) == skb.len >= len

\* a pull that leaves the UDP header on the buffer
skb_pull_none(skb, len) == skb

\* __skb_pull(skb, len)
skb_pull(skb, len) == [skb EXCEPT !.data = @ + len, !.len = @ - len]

\* the drop label: release the resolved peer, free the datagram, return 0
encap_drop(ev, peer) ==
    [ev EXCEPT !.put = IF peer # NULL THEN @ + 1 ELSE @,
               !.kfree = @ + 1, !.ret = 0]

\* every datagram of an unknown peer is left to the UDP stack
encap_unknown_peer_deliver(ev, data_v2) == [ev EXCEPT !.ret = 1]

\* every datagram of an unknown peer is dropped
encap_unknown_peer_drop(ev, data_v2) == encap_drop(ev, NULL)

\* no peer was found: a data packet is dropped, a control packet is left to
\* the UDP stack (return 1)
encap_unknown_peer(ev, data_v2) ==
    IF data_v2 THEN encap_drop(ev, NULL) ELSE [ev EXCEPT !.ret = 1]

\* after ovpn_recv returned r: drop on a negative status, else return it
encap_after_recv(ev, r, peer) ==
    IF r.ret < 0 THEN encap_drop(ev, peer) ELSE [ev EXCEPT !.ret = r.ret]

\* ovpn_udp_encap_recv(sk, skb), status being what ovpn_recv would return:
\* the events of the call and the buffer as the call leaves it
encap_recv_events(sk, skb, status) ==
    LET ovpn == ovpn_from_udp_sock(sk)
        ev0 == [op |-> "encap_recv", sk |-> sk, in |-> skb, ovpn |-> ovpn,
                by_id |-> 0, by_addr |-> 0, peer |-> NULL,
                recv |-> <<>>, put |-> 0, kfree |-> 0, skb |-> skb, ret |-> 0]
    IN
    IF ovpn = NULL THEN encap_drop(ev0, NULL)
    ELSE IF ~pskb_may_pull(skb, UdpHdrLen + OpPrefixLen) THEN encap_drop(ev0, NULL)
    ELSE
      LET data_v2 == skb.hdr.opcode = OVPN_DATA_V2
          peer == IF data_v2 THEN ovpn_peer_lookup_id(ovpn, skb.hdr.peer_id)
                  ELSE ovpn_peer_lookup_transp_addr(ovpn, skb)
          ev1 == [ev0 EXCEPT !.by_id = IF data_v2 THEN 1 ELSE 0,
                             !.by_addr = IF data_v2 THEN 0 ELSE 1,
                             !.peer = peer]
      IN
      IF peer = NULL THEN encap_unknown_peer(ev1, data_v2)
      ELSE
        LET pulled == skb_pull(skb, UdpHdrLen)
            r == ovpn_recv(ovpn, peer, pulled, status)
        IN encap_after_recv([ev1 EXCEPT !.skb = pulled, !.recv = <<r>>], r, peer)

ovpn_udp_encap_recv(sk, skb, status) ==
    /\ sk_protocol[sk] = IPPROTO_UDP
    /\ last' = encap_recv_events(sk, skb, status)
    /\ UNCHANGED <<bindVars, peerVars>>

Rebind == \E p \in Peers, b \in Binds \cup {NoBind} :
              ovpn_bind_reset(p, b) /\ UNCHANGED <<bindVars, stepVars>>
EncapRecv == \E sk \in Sockets, skb \in Datagrams, st \in RecvStatuses :
                 ovpn_udp_encap_recv(sk, skb, st) /\ UNCHANGED stepVars

(***************************************************************************)
(* Egress Transmitter and route cache                                      *)
(***************************************************************************)

\* the bytes of a source address stored for one family, read through the
\* member of the other family (dst_cache keeps in_saddr and in6_saddr in a
\* union, and the peer has one dst_cache for both families)
Reinterpret(addr) == IF addr = "l1" THEN "x1" ELSE "x2"

\* dst_cache_get_ip4 / dst_cache_get_ip6(cache, &saddr): the cached dst and,
\* when there is one, the stored source read as an address of family
dst_cache_get(cache, family) ==
    IF cache = NoRoute \/ cache.family = family THEN cache
    ELSE [cache EXCEPT !.saddr = Reinterpret(@)]

\* inet_confirm_addr / ipv6_chk_addr: the address is assigned to this host;
\* for reinterpreted bytes the answer is whatever the host's addresses make it
confirm_addr(saddr, other) ==
    IF saddr \in LocalAddrs THEN saddr \in local_addrs ELSE other

\* ip_route_output_flow / ipv6_dst_lookup_flow for the flow to daddr; found is
\* the source address the lookup resolves, which fills fl.saddr
route_lookup(family, daddr, found) ==
    [family |-> family, daddr |-> daddr, saddr |-> found]

\* udp_tunnel_xmit_skb / udp_tunnel6_xmit_skb(rt, sk, skb, saddr, daddr, ...,
\* dport, ...): the datagram is handed to the transmit path
xmit_skb(ev, family, rt, saddr, daddr, dport) ==
    [ev EXCEPT !.xmit = Append(@, [family |-> family, rt |-> rt, saddr |-> saddr,
                                   daddr |-> daddr, dport |-> dport]),
               !.trace = Append(@, "xmit"),
               !.ret = 0]

\* a cached route is used whenever there is one
cache_usable_unconfirmed(got, other) == got # NoRoute

\* the cached route may be used: there is one and its source is confirmed
cache_usable(got, other) == got # NoRoute /\ confirm_addr(got.saddr, other)

\* a fresh lookup whose route is not stored in the cache
output_fresh_unstored(ev, family, b, found, err) ==
    LET ev1 == [ev EXCEPT !.cache = NoRoute, !.resets = @ + 1, !.lookups = @ + 1,
                          !.trace = @ \o <<"cache_reset", "route_lookup">>]
    IN
    IF IS_ERR(found) THEN [ev1 EXCEPT !.ret = err]
    ELSE LET rt == route_lookup(family, b.addr, found) IN
         xmit_skb([ev1 EXCEPT !.looked = rt], family, rt, rt.saddr, b.addr, b.port)

\* the part of ovpn_udp4_output and ovpn_udp6_output after the cache miss:
\* reset the cache, look the route up, store it and transmit, or fail with err
output_fresh(ev, family, b, found, err) ==
    LET ev1 == [ev EXCEPT !.cache = NoRoute, !.resets = @ + 1, !.lookups = @ + 1,
                          !.trace = @ \o <<"cache_reset", "route_lookup">>]
    IN
    IF IS_ERR(found) THEN [ev1 EXCEPT !.ret = err]
    ELSE LET rt == route_lookup(family, b.addr, found) IN
         xmit_skb([ev1 EXCEPT !.cache = rt, !.looked = rt,
                              !.trace = Append(@, "cache_set")],
                  family, rt, rt.saddr, b.addr, b.port)

\* ovpn_udp4_output(ovpn, bind, cache, sk, skb)
ovpn_udp4_output(ev, b, found, other) ==
    LET got == dst_cache_get(ev.cache, AF_INET)
        ev1 == [ev EXCEPT !.trace = Append(@, "cache_get")]
    IN
    IF cache_usable(got, other)
    THEN xmit_skb(ev1, AF_INET, ev.cache, got.saddr, b.addr, b.port)
    ELSE output_fresh(ev1, AF_INET, b, found, -EHOSTUNREACH)

\* ovpn_udp6_output(ovpn, bind, cache, sk, skb)
ovpn_udp6_output(ev, b, found, other) ==
    LET got == dst_cache_get(ev.cache, AF_INET6)
        ev1 == [ev EXCEPT !.trace = Append(@, "cache_get")]
    IN
    IF cache_usable(got, other)
    THEN xmit_skb(ev1, AF_INET6, ev.cache, got.saddr, b.addr, b.port)
    ELSE output_fresh(ev1, AF_INET6, b, found, PTR_ERR(found))

\* a dispatch whose default case is the IPv4 routine
ovpn_udp_output_default_v4(ev, b, found, other) ==
    IF b.family = AF_INET6 THEN ovpn_udp6_output(ev, b, found, other)
    ELSE ovpn_udp4_output(ev, b, found, other)

\* ovpn_udp_output(ovpn, bind, cache, sk, skb): dispatch on the family
ovpn_udp_output(ev, b, found, other) ==
    IF b.family = AF_INET THEN ovpn_udp4_output(ev, b, found, other)
    ELSE IF b.family = AF_INET6 THEN ovpn_udp6_output(ev, b, found, other)
    ELSE [ev EXCEPT !.ret = -EAFNOSUPPORT]

\* a send that frees the datagram whatever the output routine returned
send_out_always_free(ev) ==
    [ev EXCEPT !.kfree = @ + 1, !.trace = Append(@, "kfree_skb")]

\* the out label: free the datagram when it was not transmitted
send_out(ev) ==
    IF ev.ret < 0
    THEN [ev EXCEPT !.kfree = @ + 1, !.trace = Append(@, "kfree_skb")]
    ELSE ev

\* an out_unlock label that leaves the critical section open
send_out_still_locked(ev) == send_out(ev)

\* the out_unlock label
send_out_unlock(ev) ==
    send_out([ev EXCEPT !.trace = Append(@, "rcu_read_unlock")])

\* no keepalive event is noted
keepalive_xmit_reset_none(ev) == ev

\* ovpn_peer_keepalive_xmit_reset(peer)
keepalive_xmit_reset(ev) ==
    [ev EXCEPT !.trace = Append(@, "keepalive_xmit_reset")]

\* a binding for the output routine whose address is read from peer->bind anew
output_bind_reread(b, peer) == [b EXCEPT !.addr = bind[peer].addr]

\* the binding ovpn_udp_output is given: the pointer loaded by rcu_dereference
output_bind(b, peer) == b

\* ovpn_udp_send_skb(ovpn, peer, skb) with sock = peer->sock->sock and
\* b = rcu_dereference(peer->bind) as the call read them: the events of the
\* call; found is what a route lookup would resolve, other what confirming
\* reinterpreted bytes gives
send_events_with(peer, sock, b, found, other) ==
    LET ev0 == [op |-> "send", peer |-> peer, sock |-> sock, bind |-> b,
                cache_in |-> dst_cache[peer], cache |-> dst_cache[peer],
                found |-> found,
                other |-> other, trace |-> <<>>, xmit |-> <<>>,
                looked |-> NoRoute, lookups |-> 0, resets |-> 0,
                kfree |-> 0, ret |-> -1]
    IN
    IF sock = NULL THEN send_out(ev0)
    ELSE LET ev1 == [ev0 EXCEPT !.trace = @ \o <<"rcu_read_lock", "rcu_dereference">>] IN
         IF b = NoBind THEN send_out_unlock(ev1)
         ELSE send_out_unlock(
                ovpn_udp_output(keepalive_xmit_reset(ev1), output_bind(b, peer),
                                found, other))

\* ovpn_udp_send_skb(ovpn, peer, skb) run in one piece
send_events(peer, found, other) ==
    send_events_with(peer, peer_sock[peer], bind[peer], found, other)

ovpn_udp_send_skb(peer, found, other) ==
    LET ev == send_events(peer, found, other) IN
    /\ dst_cache' = [dst_cache EXCEPT ![peer] = ev.cache]
    /\ last' = ev
    /\ UNCHANGED <<bindVars, bind, peer_sock, local_addrs>>

\* the control path gives the peer its transport socket, or takes it away
peer_set_sock(peer, sock) ==
    /\ peer_sock' = [peer_sock EXCEPT ![peer] = sock]
    /\ last' = [op |-> "set_sock", peer |-> peer]
    /\ UNCHANGED <<bindVars, bind, dst_cache, local_addrs>>

\* an address is assigned to the local host or removed from it
addr_change(addr) ==
    /\ local_addrs' = IF addr \in local_addrs THEN local_addrs \ {addr}
                      ELSE local_addrs \cup {addr}
    /\ last' = [op |-> "addr_change", addr |-> addr]
    /\ UNCHANGED <<bindVars, bind, peer_sock, dst_cache>>

Send == \E p \in TxPeers, found \in local_addrs \cup LookupFailures, other \in BOOLEAN :
            ovpn_udp_send_skb(p, found, other) /\ UNCHANGED stepVars
SetSock == \E p \in TxPeers, s \in {NULL, "udp1"} :
               peer_set_sock(p, s) /\ UNCHANGED stepVars
AddrChange == \E a \in LocalAddrs : addr_change(a) /\ UNCHANGED stepVars
RebindTx == \E p \in TxPeers, b \in Binds \cup {NoBind} :
                ovpn_bind_reset(p, b) /\ UNCHANGED <<bindVars, stepVars>>

(***************************************************************************)
(* The send call run step by step                                          *)
(***************************************************************************)

\* an execution context that is not inside ovpn_udp_send_skb
SndIdle == [pc |-> "idle"]

\* udp.c:227-240: read peer->sock->sock and, when there is a socket, enter
\* the critical section and load peer->bind; pub is the set of bindings the
\* peer has had since (history)
send_load(t, peer) ==
    /\ snd[t].pc = "idle"
    /\ snd' = [snd EXCEPT ![t] =
                 [pc |-> "loaded", peer |-> peer, sock |-> peer_sock[peer],
                  b |-> IF peer_sock[peer] = NULL THEN NoBind ELSE bind[peer],
                  pub |-> {bind[peer]}]]
    /\ UNCHANGED <<bindVars, peerVars, att, last>>

\* udp.c:242-253: the rest of the call, with the socket and binding loaded
send_rest(t, found, other) ==
    LET s == snd[t]
        ev == send_events_with(s.peer, s.sock, s.b, found, other)
    IN
    /\ s.pc = "loaded"
    /\ dst_cache' = [dst_cache EXCEPT ![s.peer] = ev.cache]
    /\ last' = [ev EXCEPT !.op = "send_steps"] @@ [pub |-> s.pub]
    /\ snd' = [snd EXCEPT ![t] = SndIdle]
    /\ UNCHANGED <<bindVars, bind, peer_sock, local_addrs, att>>

\* a roam event next to sends in progress
rebind_among(peer, new) ==
    /\ \A t \in Senders :
          snd[t].pc = "loaded" => Cardinality(snd[t].pub) <= MaxRoams
    /\ ovpn_bind_reset(peer, new)
    /\ snd' = [t \in Senders |->
                 IF snd[t].pc = "loaded" /\ snd[t].peer = peer
                 THEN [snd[t] EXCEPT !.pub = @ \cup {new}] ELSE snd[t]]
    /\ UNCHANGED <<bindVars, att>>

SendLoad == \E t \in Senders, p \in TxPeers : send_load(t, p)
SendRest == \E t \in Senders, found \in local_addrs \cup LookupFailures,
               other \in BOOLEAN : send_rest(t, found, other)
RebindAmong == \E p \in TxPeers, b \in Binds \cup {NoBind} : rebind_among(p, b)

InitBind ==
    /\ sk_user_data = [s \in Sockets |-> NULL]
    /\ encap_rcv = [s \in Sockets |-> NULL]
    /\ encap_type = [s \in Sockets |-> NoEncap]
    /\ f_count = [s \in Sockets |-> 0]
    /\ owner = [s \in Sockets |-> NULL]

AttachCheck == \E d \in Devices, s \in Sockets : attach_check(d, s)
AttachInstall == \E d \in Devices : attach_install(d)
Detach == \E s \in Sockets : ovpn_udp_socket_detach(s) /\ UNCHANGED snd

\* no device up/down control path is inside attach: the device lifecycle
\* admits the next control path operation only then
ControlPathsIdle == \A d \in Devices : att[d].pc = "idle"

\* attach and detach as the serialised control paths call them
SerialAttachCheck == ControlPathsIdle /\ AttachCheck
SerialDetach == ControlPathsIdle /\ Detach

SockfdLookup == \E s \in Sockets : sockfd_lookup(s) /\ UNCHANGED stepVars

InitPeers ==
    /\ bind = [p \in Peers |-> NoBind]
    /\ peer_sock = [p \in Peers |-> NULL]
    /\ dst_cache = [p \in Peers |-> NoRoute]
    /\ local_addrs = LocalAddrs

InitSteps ==
    /\ att = [d \in Devices |-> AttIdle(NULL)]
    /\ snd = [t \in Senders |-> SndIdle]

Init ==
    /\ InitBind
    /\ InitPeers
    /\ InitSteps
    /\ last = [op |-> "init"]

\* the binding manager called from control paths serialised by the device
\* lifecycle
NextBind == SerialAttachCheck \/ AttachInstall \/ SerialDetach \/ SockfdLookup

SpecBind == Init /\ [][NextBind]_vars

\* the binding manager next to another user of private data on stream sockets
StreamClaim == \E s \in Sockets, d \in Devices :
                   stream_socket_claim(s, d) /\ UNCHANGED stepVars
SerialStreamClaim == ControlPathsIdle /\ StreamClaim

NextBindAny ==
    SerialAttachCheck \/ AttachInstall \/ SerialDetach \/ SockfdLookup
        \/ SerialStreamClaim

SpecBindAny == Init /\ [][NextBindAny]_vars

NextIngress == SerialAttachCheck \/ AttachInstall \/ Rebind \/ EncapRecv

SpecIngress == Init /\ [][NextIngress]_vars

NextEgress == Send \/ SetSock \/ AddrChange \/ RebindTx

SpecEgress == Init /\ [][NextEgress]_vars

\* the binding manager called from control paths that nothing serialises
NextAttachSteps == AttachCheck \/ AttachInstall \/ Detach \/ SockfdLookup

SpecAttachSteps == Init /\ [][NextAttachSteps]_vars

\* a send interleaved step by step with roam events
NextSendSteps == SendLoad \/ SendRest \/ RebindAmong \/ SetSock

SpecSendSteps == Init /\ [][NextSendSteps]_vars

(***************************************************************************)
(* Properties of the Socket Binding Manager (checked under SpecBind)       *)
(***************************************************************************)

\* C1 (exclusivity): when a device other than the one whose attach returned 0
\* (with no detach since) attaches the same socket, the call returns -EBUSY
\* and private data and callback of the socket are as they were, the private
\* data still naming the first device.
C1_Exclusivity ==
    (last.op = "attach" /\ last.old_owner # NULL /\ last.old_owner # last.ovpn)
    => /\ last.ret = -EBUSY
       /\ sk_user_data[last.sock] = last.old_owner
       /\ sk_user_data[last.sock] = last.old_data
       /\ encap_rcv[last.sock] = last.old_rcv
       /\ encap_rcv[last.sock] = "ovpn_udp_encap_recv"

C1_Witness ==
    /\ last.op = "attach" /\ last.sock = "udp1"
    /\ last.old_owner = "ovpnA" /\ last.ovpn = "ovpnB"
    /\ last.ret = -EBUSY /\ sk_user_data["udp1"] = "ovpnA"

\* C2 (idempotence): when the device whose attach returned 0 (with no detach
\* since) attaches the same socket again, the call returns -EALREADY and the
\* private data is what the first call left.
C2_Idempotence ==
    (last.op = "attach" /\ last.old_owner # NULL /\ last.old_owner = last.ovpn)
    => /\ last.ret = -EALREADY
       /\ sk_user_data[last.sock] = last.old_data

\* C9 (binding state machine): private data is present exactly when an attach
\* returned 0 since the last detach and names that device; an attach that fails
\* changes nothing; a detach clears private data, callback and encapsulation
\* type whoever owned the socket and drops one file reference; an attach that
\* directly follows a detach of the same UDP socket returns 0 and binds it.
C9_BindingStateMachine ==
    /\ \A s \in Sockets :
          /\ sk_user_data[s] = owner[s]
          /\ (encap_rcv[s] # NULL) = (owner[s] # NULL)
    /\ (last.op = "attach" /\ last.ret # 0)
          => /\ sk_user_data[last.sock] = last.old_data
             /\ encap_rcv[last.sock] = last.old_rcv
    /\ (last.op = "attach" /\ last.ret = 0)
          => /\ last.old_data = NULL
             /\ sk_user_data[last.sock] = last.ovpn
    /\ (last.op = "detach")
          => /\ sk_user_data[last.sock] = NULL
             /\ encap_rcv[last.sock] = NULL
             /\ encap_type[last.sock] = NoEncap
             /\ f_count[last.sock] = last.old_count - 1
    /\ (last.op = "attach" /\ last.prev[1] = "detach" /\ last.prev[2] = last.sock
          /\ sk_protocol[last.sock] = IPPROTO_UDP)
          => /\ last.ret = 0
             /\ sk_user_data[last.sock] = last.ovpn

C9_Witness ==
    /\ last.op = "attach" /\ last.sock = "udp1" /\ last.ovpn = "ovpnB"
    /\ last.prev = <<"detach", "udp1", "ovpnA">>
    /\ last.ret = 0 /\ sk_user_data["udp1"] = "ovpnB"

(***************************************************************************)
(* Properties of the Ingress Demultiplexer (checked under SpecIngress)     *)
(***************************************************************************)

\* the call was made on a socket bound to a device and the 4 byte prefix
\* after the UDP header is in the buffer
IngressWellFormed ==
    /\ last.op = "encap_recv"
    /\ last.ovpn # NULL
    /\ last.in.len >= UdpHdrLen + OpPrefixLen

\* the peers of the bound device the datagram's identifier names
PeersById == {p \in Peers : PeerDev[p] = last.ovpn /\ PeerId[p] = last.in.hdr.peer_id}

\* the peers of the bound device bound to the datagram's source address
PeersByAddr == {p \in Peers : PeerDev[p] = last.ovpn /\ bind[p] = last.in.src}

\* C3: a data v2 datagram with the prefix present and an identifier of the
\* bound device's directory leads to exactly one ovpn_recv call, for the peer
\* with that identifier, found by identifier and not by address, on the buffer
\* advanced by exactly the UDP header.
C3_DataForwardedOnce ==
    (IngressWellFormed /\ last.in.hdr.opcode = OVPN_DATA_V2 /\ PeersById # {})
    => /\ Len(last.recv) = 1
       /\ last.recv[1].peer \in PeersById
       /\ last.recv[1].ovpn = last.ovpn
       /\ last.by_id = 1 /\ last.by_addr = 0
       /\ last.recv[1].data = last.in.data + UdpHdrLen
       /\ last.recv[1].len = last.in.len - UdpHdrLen

C3_Witness ==
    /\ IngressWellFormed /\ last.in.hdr.opcode = OVPN_DATA_V2
    /\ last.in.hdr.peer_id = 1 /\ last.ovpn = "ovpnA"
    /\ Len(last.recv) = 1 /\ last.recv[1].peer = "peer1"
    /\ last.recv[1].data = UdpHdrLen

\* C4: a datagram with another opcode whose source address is the binding of
\* no peer of the bound device is left alone: the call returns a positive
\* value, ovpn_recv is not called, nothing is freed and the buffer is as it
\* was received.
C4_ForeignDeliveredNormally ==
    (IngressWellFormed /\ last.in.hdr.opcode # OVPN_DATA_V2 /\ PeersByAddr = {})
    => /\ last.ret > 0
       /\ last.recv = <<>>
       /\ last.kfree = 0 /\ last.put = 0
       /\ last.skb = last.in

C4_Witness ==
    /\ IngressWellFormed /\ last.in.hdr.opcode = OVPN_CONTROL_V1
    /\ PeersByAddr = {} /\ \E p \in Peers : bind[p] # NoBind /\ PeerDev[p] = last.ovpn
    /\ last.ret = 1

\* C5: a datagram with fewer than 4 bytes after the UDP header is freed once,
\* the call returns 0, and neither lookup nor ovpn_recv is called.
C5_ShortDropped ==
    (last.op = "encap_recv" /\ last.in.len < UdpHdrLen + OpPrefixLen)
    => /\ last.ret = 0
       /\ last.kfree = 1
       /\ last.by_id = 0 /\ last.by_addr = 0
       /\ last.recv = <<>>

C5_Witness ==
    /\ last.op = "encap_recv" /\ last.ovpn # NULL
    /\ last.in.len = UdpHdrLen + OpPrefixLen - 1
    /\ last.ret = 0 /\ last.kfree = 1

\* releases of the peer reference during the call: by the handler and by the
\* pipeline for the reference handed to it
Releases == last.put + (IF Len(last.recv) = 1 THEN last.recv[1].put ELSE 0)

\* C6 (reference count safety): a lookup that returned a peer is matched by
\* exactly one release, whatever path the call leaves by.
C6_OneReleasePerLookup ==
    (last.op = "encap_recv" /\ last.peer # NULL) => Releases = 1

\* C10 (tri-state propagation): whenever ovpn_recv is called, the call
\* returns the status ovpn_recv returned, be it zero, positive or negative.
C10_StatusVerbatim ==
    (last.op = "encap_recv" /\ Len(last.recv) = 1) => last.ret = last.recv[1].ret

(***************************************************************************)
(* Properties of the Egress Transmitter (checked under SpecEgress)         *)
(***************************************************************************)

\* event e is in trace tr
Has(tr, e) == \E i \in 1..Len(tr) : tr[i] = e

\* every place of event a in trace tr is before every place of event b
Before(tr, a, b) ==
    \A i, j \in 1..Len(tr) : (tr[i] = a /\ tr[j] = b) => i < j

\* C7: every send disposes of the datagram exactly once: the number of
\* transmit calls that got it plus the number of times send freed it is 1,
\* whether the peer has no socket, no binding, a binding of an unsupported
\* family, the route lookup fails or the datagram is transmitted.
C7_DatagramDisposedOnce ==
    (last.op = "send")
    => /\ Len(last.xmit) + last.kfree = 1
       /\ (last.sock = NULL \/ last.bind = NoBind
           \/ last.bind.family \notin {AF_INET, AF_INET6}) => last.kfree = 1
       /\ last.ret < 0 <=> last.kfree = 1

C7_Witness ==
    /\ last.op = "send" /\ last.sock # NULL /\ last.bind.family = AF_INET
    /\ last.lookups = 1 /\ last.looked = NoRoute
    /\ last.xmit = <<>> /\ last.kfree = 1

\* the send got as far as the output routine of IPv4 or IPv6
SendReachedOutput ==
    /\ last.op = "send" /\ last.sock # NULL
    /\ last.bind.family \in {AF_INET, AF_INET6}

\* the peer had a cached route whose stored source address, as the output
\* routine of the binding's family reads it, was not confirmed at this send
StaleSource ==
    /\ last.cache_in # NoRoute
    /\ IF last.cache_in.family = last.bind.family
       THEN last.cache_in.saddr \notin local_addrs
       ELSE ~last.other

\* C8 (route cache correctness): a send that validates a cached route whose
\* source address is not confirmed resets the cache, then does one fresh
\* lookup, and transmits, if at all, with the route and source that lookup
\* gave, which is then the cache content; it never transmits with the cached
\* route or its source.
C8_StaleRouteNeverUsed ==
    (SendReachedOutput /\ StaleSource)
    => /\ last.resets = 1 /\ last.lookups = 1
       /\ Before(last.trace, "cache_reset", "route_lookup")
       /\ Before(last.trace, "route_lookup", "xmit")
       /\ Len(last.xmit) <= 1
       /\ last.xmit = <<>> => dst_cache[last.peer] = NoRoute
       /\ last.xmit # <<>> =>
            /\ last.looked # NoRoute
            /\ last.xmit[1].rt = last.looked
            /\ last.xmit[1].saddr = last.looked.saddr
            /\ last.xmit[1].saddr \in local_addrs
            /\ last.xmit[1].rt # last.cache_in
            /\ last.xmit[1].saddr # dst_cache_get(last.cache_in, last.bind.family).saddr
            /\ dst_cache[last.peer] = last.looked

C8_Witness ==
    /\ SendReachedOutput /\ StaleSource
    /\ last.cache_in.family = last.bind.family
    /\ last.cache_in.saddr = "l1" /\ "l1" \notin local_addrs
    /\ Len(last.xmit) = 1 /\ last.xmit[1].saddr = "l2"
(***************************************************************************)
(* Further properties of the Socket Binding Manager                        *)
(***************************************************************************)

\* C11 (checked under SpecBindAny): an attach on a socket whose protocol is
\* not UDP returns -EINVAL and leaves private data and callback as they were,
\* whether the socket has no private data or private data naming the same or
\* another device.
C11_WrongProtocol ==
    (last.op = "attach" /\ sk_protocol[last.sock] # IPPROTO_UDP)
    => /\ last.ret = -EINVAL
       /\ sk_user_data[last.sock] = last.old_data
       /\ encap_rcv[last.sock] = last.old_rcv

C11_Witness ==
    /\ last.op = "attach" /\ last.sock = "tcp1"
    /\ last.old_data = "ovpnA" /\ last.ovpn = "ovpnA"
    /\ last.ret = -EINVAL /\ sk_user_data["tcp1"] = "ovpnA"
(***************************************************************************)
(* Further properties of the Egress Transmitter (checked under SpecEgress) *)
(***************************************************************************)

\* the peer had a cached IPv4 route whose stored source is still assigned
ConfirmedV4Cache ==
    /\ last.cache_in # NoRoute
    /\ last.cache_in.family = AF_INET
    /\ last.cache_in.saddr \in local_addrs

\* C12: for a peer with a socket and an IPv4 binding, a send that finds the
\* cache empty and whose route lookup succeeds does exactly one lookup, leaves
\* in the cache the route found together with the source address resolved, and
\* makes exactly one transmit call, to the address and port of the binding; a
\* send that finds a cached IPv4 route whose source is still confirmed
\* transmits with that route, does no lookup and leaves the cache as it was.
C12_LookupOnceThenReuse ==
    /\ (SendReachedOutput /\ last.bind.family = AF_INET /\ last.cache_in = NoRoute
          /\ ~IS_ERR(last.found))
       => /\ last.lookups = 1
          /\ last.looked = [family |-> AF_INET, daddr |-> last.bind.addr,
                            saddr |-> last.found]
          /\ dst_cache[last.peer] = last.looked
          /\ Len(last.xmit) = 1
          /\ last.xmit[1].rt = last.looked
          /\ last.xmit[1].daddr = last.bind.addr
          /\ last.xmit[1].dport = last.bind.port
          /\ last.kfree = 0
    /\ (SendReachedOutput /\ last.bind.family = AF_INET /\ ConfirmedV4Cache)
       => /\ last.lookups = 0 /\ last.resets = 0
          /\ dst_cache[last.peer] = last.cache_in
          /\ Len(last.xmit) = 1
          /\ last.xmit[1].rt = last.cache_in
          /\ last.xmit[1].saddr = last.cache_in.saddr
          /\ last.xmit[1].daddr = last.bind.addr
          /\ last.xmit[1].dport = last.bind.port

\* a send that reuses the route an earlier send to the same address stored
C12_Witness ==
    /\ SendReachedOutput /\ last.bind.family = AF_INET /\ ConfirmedV4Cache
    /\ last.cache_in.daddr = last.bind.addr
    /\ last.lookups = 0 /\ Len(last.xmit) = 1
    /\ last.xmit[1].rt = last.cache_in
(***************************************************************************)
(* Further properties of the Ingress Demultiplexer (under SpecIngress)     *)
(***************************************************************************)

\* C13: whenever the call returns a value other than 0 the datagram is as it
\* was received: not freed, by the handler or by the pipeline, and with its
\* data pointer and length where they were (the UDP header not pulled).
C13_NotConsumedUntouched ==
    (last.op = "encap_recv" /\ last.ret # 0)
    => /\ last.kfree = 0
       /\ \A i \in 1..Len(last.recv) : last.recv[i].consumed = 0
       /\ last.skb = last.in

\* C16: a data v2 datagram whose identifier names no peer of the bound device
\* is consumed: the call returns 0, frees it once, looks up by identifier only
\* and does not call ovpn_recv, also when the source address is the binding of
\* a peer of that device.
C16_UnknownIdDropped ==
    (IngressWellFormed /\ last.in.hdr.opcode = OVPN_DATA_V2 /\ PeersById = {})
    => /\ last.ret = 0
       /\ last.kfree = 1
       /\ last.by_id = 1 /\ last.by_addr = 0
       /\ last.recv = <<>>
       /\ last.put = 0

C16_Witness ==
    /\ IngressWellFormed /\ last.in.hdr.opcode = OVPN_DATA_V2
    /\ PeersById = {} /\ PeersByAddr # {}
    /\ last.ret = 0 /\ last.kfree = 1
(***************************************************************************)
(* Order of the events of a send (checked under SpecEgress)                *)
(***************************************************************************)

\* how often event e is in trace tr
Count(tr, e) == Cardinality({i \in 1..Len(tr) : tr[i] = e})

\* what the output routines do: cache validation, route lookup and transmit
OutputEvents == {"cache_get", "cache_reset", "route_lookup", "cache_set", "xmit"}

\* what must happen inside the read-side critical section
LockedEvents == OutputEvents \cup {"rcu_dereference", "keepalive_xmit_reset"}

\* C14: a send that found a socket enters the read-side critical section
\* once, before it reads the binding, and leaves it once, after the keepalive
\* note, the cache validation, the route lookup and the transmit call,
\* whichever path it takes; a send that found no socket neither enters nor
\* leaves it.
C14_CriticalSection ==
    (last.op = "send")
    => /\ Count(last.trace, "rcu_read_lock") = (IF last.sock = NULL THEN 0 ELSE 1)
       /\ Count(last.trace, "rcu_read_unlock") = (IF last.sock = NULL THEN 0 ELSE 1)
       /\ Before(last.trace, "rcu_read_lock", "rcu_read_unlock")
       /\ \A e \in LockedEvents :
            /\ Has(last.trace, e) => Has(last.trace, "rcu_read_lock")
            /\ Before(last.trace, "rcu_read_lock", e)
            /\ Before(last.trace, e, "rcu_read_unlock")

C14_Witness ==
    /\ last.op = "send" /\ last.sock # NULL
    /\ Has(last.trace, "route_lookup") /\ last.xmit = <<>> /\ last.ret < 0
    /\ Count(last.trace, "rcu_read_unlock") = 1

\* C15: a send whose binding has a family other than AF_INET and AF_INET6
\* fails with -EAFNOSUPPORT: no cache access, no route lookup and no transmit,
\* the cache stays as it was and the datagram is freed once.
C15_UnsupportedFamily ==
    (last.op = "send" /\ last.sock # NULL /\ last.bind # NoBind
       /\ last.bind.family \notin {AF_INET, AF_INET6})
    => /\ last.ret = -EAFNOSUPPORT
       /\ last.lookups = 0 /\ last.resets = 0
       /\ \A e \in OutputEvents : ~Has(last.trace, e)
       /\ last.xmit = <<>>
       /\ dst_cache[last.peer] = last.cache_in
       /\ last.kfree = 1

C15_Witness ==
    /\ last.op = "send" /\ last.sock # NULL
    /\ last.bind.family = AF_UNSPEC /\ last.cache_in # NoRoute
    /\ last.ret = -EAFNOSUPPORT /\ dst_cache[last.peer] = last.cache_in

\* C17: a send for a peer without socket, or with a socket and no binding,
\* notes no keepalive event, looks up no route, leaves the cache alone,
\* transmits nothing and frees the datagram; the keepalive event is noted once
\* in a send exactly when socket and binding are both there, and before the
\* output routine does anything, so also when that routine then fails.
C17_NoTransportAndKeepalive ==
    (last.op = "send")
    => /\ (last.sock = NULL \/ last.bind = NoBind)
          => /\ Count(last.trace, "keepalive_xmit_reset") = 0
             /\ last.lookups = 0 /\ last.resets = 0
             /\ \A e \in OutputEvents : ~Has(last.trace, e)
             /\ dst_cache[last.peer] = last.cache_in
             /\ last.xmit = <<>>
             /\ last.kfree = 1
       /\ (last.sock # NULL /\ last.bind # NoBind)
          => Count(last.trace, "keepalive_xmit_reset") = 1
       /\ \A e \in OutputEvents : Before(last.trace, "keepalive_xmit_reset", e)

C17_Witness ==
    /\ last.op = "send" /\ last.sock # NULL /\ last.bind.family = AF_INET
    /\ Count(last.trace, "keepalive_xmit_reset") = 1
    /\ last.ret = -EHOSTUNREACH /\ last.kfree = 1
(***************************************************************************)
(* Calls interleaved step by step                                          *)
(***************************************************************************)

\* devices whose attach returned 0 for sock and that no detach followed
Holders(sock) == {d \in Devices : att[d].holds = sock}

\* C18: when the attach calls of two devices on one free UDP socket
\* interleave between the ownership check and the installation, at most one
\* of them returns 0 and no installation overwrites the token: every device
\* that got 0 from attach with no detach since is the device the token names.
C18_SingleOwnerInterleaved ==
    \A s \in Sockets :
        /\ Cardinality(Holders(s)) <= 1
        /\ \A d \in Holders(s) : sk_user_data[s] = d

\* a send run step by step that got as far as a transmit call
SteppedXmit == last.op = "send_steps" /\ last.xmit # <<>>

\* C19: a send interleaved with roam events loads the binding once, and the
\* family it dispatches on and the address and port it transmits to are those
\* of that one value, which the peer had at some moment of the send; no
\* transmit takes fields from two bindings.
C19_BindingSnapshot ==
    /\ last.op = "send_steps" /\ last.sock # NULL
       => /\ Count(last.trace, "rcu_dereference") = 1
          /\ last.bind \in last.pub
    /\ SteppedXmit
       => /\ Len(last.xmit) = 1
          /\ last.xmit[1].family = last.bind.family
          /\ last.xmit[1].daddr = last.bind.addr
          /\ last.xmit[1].dport = last.bind.port
          /\ \E b \in last.pub :
                /\ b # NoBind
                /\ last.xmit[1].family = b.family
                /\ last.xmit[1].daddr = b.addr
                /\ last.xmit[1].dport = b.port

\* a send that transmits to the binding it loaded after a roam event gave the
\* peer a binding of another family and another address
C19_Witness ==
    /\ SteppedXmit
    /\ Cardinality(last.pub) = 2
    /\ bind[last.peer] # NoBind
    /\ bind[last.peer].family # last.bind.family
    /\ bind[last.peer].addr # last.bind.addr

\* C20: in every interleaving of sends with roam events, each transmit uses a
\* route that was looked up for the family and the destination the datagram
\* is sent to; a route cached for the old destination is not reused for the
\* new one, nor is one stored by a send in progress across the roam event.
C20_RouteMatchesDestination ==
    SteppedXmit
    => /\ last.xmit[1].rt.family = last.xmit[1].family
       /\ last.xmit[1].rt.daddr = last.xmit[1].daddr
====
